---- MODULE Spec2Model ----
(***************************************************************************)
(* Model of keyword.go: the KeywordRegistry (three Go maps behind a        *)
(* pointer), its methods, the lazily created shared registry kr guarded by *)
(* krLock, and the package-level functions that go through the lock.       *)
(*                                                                         *)
(* Go maps are reference values, so the model keeps a heap: heap.maps maps *)
(* a map address to the map's contents (a function on its key set) and     *)
(* heap.regs maps a registry address to the KeywordRegistry struct, whose  *)
(* three fields hold map addresses.  Address 0 is nil.  heap.notSupported  *)
(* is the contents of the package-level map notSupported.                  *)
(***************************************************************************)
EXTENDS Integers, Sequences, FiniteSets, TLC

\* ---------------------------------------------------------------- bounds
MaxCalls == 4
NumProcs == 3
BulkNames == 1001
MaxBytes == 3
NumCallers == 2

\* ------------------------------------------------------------ input sets
Names == {"type", "properties", "contentMediaType"}
Makers == {"NewType", "NewProperties"}
Orders == {0, 2}
Procs == 1..NumProcs

nil == 0
EmptyMap == [k \in {} |-> 0]

\* var notSupported = map[string]bool{...}
notSupported ==
    [k \in {"$vocabulary", "contentEncoding", "contentMediaType", "contentSchema",
            "deprecated", "definitions", "dependencies"} |-> TRUE]

\* the heap before any registry is made: only the package-level map literal
EmptyHeap == [regs |-> EmptyMap, maps |-> EmptyMap, notSupported |-> notSupported]

\* ------------------------------------------------------------- variables
VARIABLES
    heap,      \* [regs: addr -> KeywordRegistry struct, maps: addr -> contents]
    r,         \* a *KeywordRegistry used through its methods
    c,         \* the result of r.Copy(), nil before the first Copy
    kr,        \* var kr *KeywordRegistry
    krLock,    \* var krLock sync.Mutex: 0 when free, else the holder
    pc,        \* position of each caller of a package-level function
    arg,       \* the call each caller makes
    snap,      \* what copyGlobalKeywordRegistry returned to each caller
    recv,      \* the registry getGlobalKeywordRegistry returned to each caller
    tmp,       \* each caller's evaluated len(r.keywordInsertOrder)
    seen,      \* history: the callers that had returned when this one called
    hist,      \* history per registry address (first registrations, ...)
    lastCall,  \* the method call that produced the current state
    ret,       \* the value the last GetKeyword returned
    ncalls,    \* number of method calls made so far
    MaxKeywordErrStringLen,  \* var MaxKeywordErrStringLen
    errCall,   \* the last call of InvalidValueString or KeyError.Error
    out        \* what that call returned, or that it panicked

errvars == <<MaxKeywordErrStringLen, errCall, out>>

vars == <<heap, r, c, kr, krLock, pc, arg, snap, recv, tmp, seen, hist, lastCall,
          ret, ncalls, errvars>>

\* ------------------------------------------------------------- Go maps
MapLen(h, a) == Cardinality(DOMAIN h.maps[a])

MapHas(h, a, k) == k \in DOMAIN h.maps[a]

MapGet(h, a, k) == h.maps[a][k]

Put(m, k, v) == [x \in (DOMAIN m) \cup {k} |-> IF x = k THEN v ELSE m[x]]

MapAssign(h, a, k, v) == [h EXCEPT !.maps[a] = Put(@, k, v)]

\* make(map[...]..., n): a new empty map at the next free address
MakeMap(h) ==
    LET a == Cardinality(DOMAIN h.maps) + 1
    IN  [heap |-> [h EXCEPT !.maps = Put(@, a, EmptyMap)], addr |-> a]

\* &KeywordRegistry{...}: a new struct at the next free address
NewStruct(h, m1, m2, m3) ==
    LET p == Cardinality(DOMAIN h.regs) + 1
    IN  [heap |-> [h EXCEPT !.regs = Put(@, p,
                     [keywordRegistry |-> m1, keywordOrder |-> m2,
                      keywordInsertOrder |-> m3])],
         ptr |-> p]

\* The composite literal of getGlobalKeywordRegistry: three empty maps.
NewKeywordRegistry(h) ==
    LET a1 == MakeMap(h)
        a2 == MakeMap(a1.heap)
        a3 == MakeMap(a2.heap)
    IN  NewStruct(a3.heap, a1.addr, a2.addr, a3.addr)

\* for k, v := range src { dest[k] = v }
RangeCopy(h, src, dest) ==
    [h EXCEPT !.maps[dest] =
        [k \in (DOMAIN @) \cup DOMAIN h.maps[src] |->
            IF k \in DOMAIN h.maps[src] THEN h.maps[src][k] ELSE @[k]]]

\* A Copy that keeps the source's keywordOrder map instead of filling a new one.
CopyAliased(h, p) ==
    LET a1 == MakeMap(h)
        a3 == MakeMap(a1.heap)
        d  == NewStruct(a3.heap, a1.addr, h.regs[p].keywordOrder, a3.addr)
        h1 == RangeCopy(d.heap, d.heap.regs[p].keywordRegistry, a1.addr)
        h3 == RangeCopy(h1, h1.regs[p].keywordInsertOrder, a3.addr)
    IN  [heap |-> h3, ptr |-> d.ptr]

\* A Copy without the third loop: keywordInsertOrder stays empty.
CopySkipsInsertOrder(h, p) ==
    LET a1 == MakeMap(h)
        a2 == MakeMap(a1.heap)
        a3 == MakeMap(a2.heap)
        d  == NewStruct(a3.heap, a1.addr, a2.addr, a3.addr)
        h1 == RangeCopy(d.heap, d.heap.regs[p].keywordRegistry, a1.addr)
        h2 == RangeCopy(h1, h1.regs[p].keywordOrder, a2.addr)
    IN  [heap |-> h2, ptr |-> d.ptr]

\* func (r *KeywordRegistry) Copy() *KeywordRegistry
Copy(h, p) ==
    LET a1 == MakeMap(h)
        a2 == MakeMap(a1.heap)
        a3 == MakeMap(a2.heap)
        d  == NewStruct(a3.heap, a1.addr, a2.addr, a3.addr)
        h1 == RangeCopy(d.heap, d.heap.regs[p].keywordRegistry, a1.addr)
        h2 == RangeCopy(h1, h1.regs[p].keywordOrder, a2.addr)
        h3 == RangeCopy(h2, h2.regs[p].keywordInsertOrder, a3.addr)
    IN  [heap |-> h3, ptr |-> d.ptr]

\* ------------------------------------------------------------- lookups
IsRegisteredKeyword(h, p, prop) == MapHas(h, h.regs[p].keywordRegistry, prop)

\* NewVoid(): the keyword that validates, registers and resolves nothing
NewVoid == [variant |-> "Void", by |-> "NewVoid"]

\* KeyMaker: calling a maker yields a fresh keyword built by that maker
KeyMaker(maker) == [variant |-> "Keyword", by |-> maker]

GetKeyword(h, p, prop) ==
    IF ~IsRegisteredKeyword(h, p, prop)
    THEN NewVoid
    ELSE KeyMaker(MapGet(h, h.regs[p].keywordRegistry, prop))

DefaultOrder == 1

\* A GetKeywordOrder that returns the map's zero value for a missing name.
GetKeywordOrderZeroValue(h, p, prop) ==
    IF MapHas(h, h.regs[p].keywordOrder, prop)
    THEN MapGet(h, h.regs[p].keywordOrder, prop)
    ELSE 0

GetKeywordOrder(h, p, prop) ==
    IF MapHas(h, h.regs[p].keywordOrder, prop)
    THEN MapGet(h, h.regs[p].keywordOrder, prop)
    ELSE DefaultOrder

DefaultInsertOrder == 1000

GetKeywordInsertOrder(h, p, prop) ==
    IF MapHas(h, h.regs[p].keywordInsertOrder, prop)
    THEN MapGet(h, h.regs[p].keywordInsertOrder, prop)
    ELSE DefaultInsertOrder

\* func (r *KeywordRegistry) IsNotSupportedKeyword(prop string) bool
IsNotSupportedKeyword(h, p, prop) == prop \in DOMAIN h.notSupported

\* An IsRegistryLoaded that looks at the keywordOrder table.
IsRegistryLoadedByOrder(h, p) ==
    /\ h.regs[p].keywordOrder # nil
    /\ MapLen(h, h.regs[p].keywordOrder) > 0

IsRegistryLoaded(h, p) ==
    /\ h.regs[p].keywordRegistry # nil
    /\ MapLen(h, h.regs[p].keywordRegistry) > 0

\* ------------------------------------------------------------ mutators
\* A SetKeywordOrder that ignores names that are not registered.
SetKeywordOrderIfRegistered(h, p, prop, order) ==
    IF MapHas(h, h.regs[p].keywordRegistry, prop)
    THEN MapAssign(h, h.regs[p].keywordOrder, prop, order)
    ELSE h

\* func (r *KeywordRegistry) SetKeywordOrder(prop string, order int)
KeywordRegistry_SetKeywordOrder(h, p, prop, order) ==
    MapAssign(h, h.regs[p].keywordOrder, prop, order)

\* A registration that keeps the factory a name already has.
StoreMakerIfAbsent(h, p, prop, maker) ==
    IF MapHas(h, h.regs[p].keywordRegistry, prop)
    THEN h
    ELSE MapAssign(h, h.regs[p].keywordRegistry, prop, maker)

\* A registration that also takes the name out of notSupported.
StoreMakerMarksSupported(h, p, prop, maker) ==
    [MapAssign(h, h.regs[p].keywordRegistry, prop, maker)
        EXCEPT !.notSupported = [k \in (DOMAIN @) \ {prop} |-> TRUE]]

\* r.keywordRegistry[prop] = maker
StoreMaker(h, p, prop, maker) ==
    MapAssign(h, h.regs[p].keywordRegistry, prop, maker)

\* the right-hand side len(r.keywordInsertOrder)
InsertOrderLen(h, p) == MapLen(h, h.regs[p].keywordInsertOrder)

\* the assignment r.keywordInsertOrder[prop] = <evaluated length>
AssignInsertOrder(h, p, prop, n) ==
    MapAssign(h, h.regs[p].keywordInsertOrder, prop, n)

\* r.keywordInsertOrder[prop] = len(r.keywordInsertOrder)
StoreInsertOrder(h, p, prop) ==
    AssignInsertOrder(h, p, prop, InsertOrderLen(h, p))

\* func (r *KeywordRegistry) RegisterKeyword(prop string, maker KeyMaker)
KeywordRegistry_RegisterKeyword(h, p, prop, maker) ==
    StoreInsertOrder(StoreMaker(h, p, prop, maker), p, prop)

\* ---------------------------------------------------------- error model
\* Strings and byte slices are sequences of bytes; LF and CR stand for the
\* bytes '\n' and '\r'.
LF == "LF"
CR == "CR"

DefaultMaxKeywordErrStringLen == 20

\* the values a caller assigns to MaxKeywordErrStringLen
MaxLens == {-2, -1, 0, 2, 20}

RECURSIVE SeqsUpTo(_, _)
\* the byte strings over alphabet of length 0..n
SeqsUpTo(alphabet, n) ==
    IF n = 0 THEN {<<>>}
    ELSE LET shorter == SeqsUpTo(alphabet, n - 1)
         IN  shorter \cup {Append(t, b) : t \in shorter, b \in alphabet}

\* data interface{}: nil, a Go string over the bytes "a", LF and CR, or a
\* value json.Marshal cannot serialize (a channel, a func, ...)
NilValue == [kind |-> "nil", str |-> <<>>]

Unmarshalable == [kind |-> "unmarshalable", str |-> <<>>]

ValuesUpTo(n) ==
    {NilValue, Unmarshalable}
      \cup {[kind |-> "string", str |-> t] : t \in SeqsUpTo({"a", LF, CR}, n)}

Values == ValuesUpTo(MaxBytes)

Quote == "\""

Backslash == "\\"

RECURSIVE EscapeString(_)
\* the body of a JSON string as encoding/json writes it: a line feed becomes
\* the two bytes \ n, a carriage return the two bytes \ r
EscapeString(str) ==
    IF str = <<>> THEN <<>>
    ELSE (CASE Head(str) = LF -> <<Backslash, "n">>
            [] Head(str) = CR -> <<Backslash, "r">>
            [] OTHER -> <<Head(str)>>) \o EscapeString(Tail(str))

\* A json.Marshal that writes the bytes of a string as they are.
MarshalUnescaped(data) ==
    CASE data.kind = "nil" -> [err |-> FALSE, bt |-> <<"n", "u", "l", "l">>]
      [] data.kind = "unmarshalable" -> [err |-> TRUE, bt |-> <<>>]
      [] OTHER -> [err |-> FALSE, bt |-> <<Quote>> \o data.str \o <<Quote>>]

\* bt, err := json.Marshal(data)
Marshal(data) ==
    CASE data.kind = "nil" -> [err |-> FALSE, bt |-> <<"n", "u", "l", "l">>]
      [] data.kind = "unmarshalable" -> [err |-> TRUE, bt |-> <<>>]
      [] OTHER -> [err |-> FALSE,
                   bt |-> <<Quote>> \o EscapeString(data.str) \o <<Quote>>]

HasPrefix(bt, old) == Len(bt) >= Len(old) /\ SubSeq(bt, 1, Len(old)) = old

RECURSIVE BytesReplace(_, _, _)
\* bytes.Replace(bt, old, new, -1) for a non-empty old
BytesReplace(bt, old, new) ==
    IF bt = <<>> THEN <<>>
    ELSE IF HasPrefix(bt, old)
         THEN new \o BytesReplace(SubSeq(bt, Len(old) + 1, Len(bt)), old, new)
         ELSE <<Head(bt)>> \o BytesReplace(Tail(bt), old, new)

\* what a call yields: a string, or a run-time panic
Returned(str) == [kind |-> "string", val |-> str]

Panic == [kind |-> "panic", val |-> <<>>]

NoOut == [kind |-> "none", val |-> <<>>]

Ellipsis == <<".", ".", ".">>

\* append(bt[:hi], []byte("...")...): the slice expression panics when hi is
\* out of range
AppendEllipsis(bt, hi) ==
    IF hi < 0 \/ hi > Len(bt) THEN Panic
    ELSE Returned(SubSeq(bt, 1, hi) \o Ellipsis)

\* An InvalidValueString that already truncates a text of exactly max bytes.
InvalidValueStringOffByOne(data, max) ==
    LET m == Marshal(data)
    IN  IF m.err THEN Returned(<<>>)
        ELSE LET bt == BytesReplace(m.bt, <<LF, CR>>, <<" ">>)
             IN  IF max # -1 /\ Len(bt) >= max
                 THEN AppendEllipsis(bt, max)
                 ELSE Returned(bt)

\* func InvalidValueString(data interface{}) string, under maximum max
InvalidValueString(data, max) ==
    LET m == Marshal(data)
    IN  IF m.err THEN Returned(<<>>)
        ELSE LET bt == BytesReplace(m.bt, <<LF, CR>>, <<" ">>)
             IN  IF max # -1 /\ Len(bt) > max
                 THEN AppendEllipsis(bt, max)
                 ELSE Returned(bt)

\* type KeyError struct
KeyErrors ==
    [PropertyPath : {<<>>, <<"/", "p">>}, InvalidValue : ValuesUpTo(MaxBytes - 1),
     Message : {<<"m">>}]

\* fmt.Sprintf("%s: %s %s", s1, s2, s3)
Sprintf3(s1, s2, s3) == s1 \o <<":", " ">> \o s2 \o <<" ">> \o s3

\* fmt.Sprintf("%s: %s", s1, s2)
Sprintf2(s1, s2) == s1 \o <<":", " ">> \o s2

\* func (v KeyError) Error() string, under maximum max
Error(v, max) ==
    IF v.PropertyPath # <<>> /\ v.InvalidValue # NilValue
    THEN LET ivs == InvalidValueString(v.InvalidValue, max)
         IN  IF ivs.kind = "panic" THEN Panic
             ELSE Returned(Sprintf3(v.PropertyPath, ivs.val, v.Message))
    ELSE IF v.PropertyPath # <<>>
         THEN Returned(Sprintf2(v.PropertyPath, v.Message))
         ELSE Returned(v.Message)

NoKeyError == [PropertyPath |-> <<>>, InvalidValue |-> NilValue, Message |-> <<>>]

NoErrCall == [fn |-> "none", data |-> NilValue, v |-> NoKeyError, max |-> 0]

\* ------------------------------------------------------------- history
Range(f) == {f[i] : i \in DOMAIN f}

NoHist ==
    [first |-> EmptyMap, seq |-> <<>>, touched |-> {}, maker |-> EmptyMap,
     again |-> {}]

\* prop was passed to RegisterKeyword on registry p and got insert order v
HistRegister(hs, p, prop, maker, v) ==
    [hs EXCEPT ![p] =
        [first   |-> IF prop \in DOMAIN @.first THEN @.first
                     ELSE Put(@.first, prop, v),
         seq     |-> IF prop \in Range(@.seq) THEN @.seq ELSE Append(@.seq, prop),
         touched |-> @.touched \cup {prop},
         maker   |-> Put(@.maker, prop, maker),
         again   |-> IF prop \in Range(@.seq) THEN @.again \cup {prop}
                     ELSE @.again]]

\* prop was passed to SetKeywordOrder on registry p
HistSetOrder(hs, p, prop) == [hs EXCEPT ![p].touched = @ \cup {prop}]

\* position of prop among the first registrations on registry p
FirstPos(p, prop) == CHOOSE i \in DOMAIN hist[p].seq : hist[p].seq[i] = prop

\* ------------------------------------------- method calls on r and on c
Ptr(w) == IF w = "r" THEN r ELSE c

NoCall == [op |-> "none", on |-> "-", prop |-> "-", maker |-> "-", order |-> 0]

\* what the garbage collector keeps when c is about to be overwritten
Live(h, ptrs) ==
    LET ms == UNION {{h.regs[p].keywordRegistry, h.regs[p].keywordOrder,
                      h.regs[p].keywordInsertOrder} : p \in ptrs}
    IN  [regs |-> [p \in ptrs |-> h.regs[p]],
         maps |-> [a \in ms \cap DOMAIN h.maps |-> h.maps[a]],
         notSupported |-> h.notSupported]

CallRegisterKeyword(w, prop, maker) ==
    /\ ncalls < MaxCalls
    /\ Ptr(w) # nil
    /\ heap' = KeywordRegistry_RegisterKeyword(heap, Ptr(w), prop, maker)
    /\ hist' = HistRegister(hist, Ptr(w), prop, maker,
                            GetKeywordInsertOrder(heap', Ptr(w), prop))
    /\ lastCall' = [op |-> "RegisterKeyword", on |-> w, prop |-> prop,
                    maker |-> maker, order |-> 0]
    /\ ncalls' = ncalls + 1
    /\ UNCHANGED errvars
    /\ UNCHANGED <<r, c, kr, krLock, pc, arg, snap, recv, tmp, seen, ret>>

CallSetKeywordOrder(w, prop, order) ==
    /\ ncalls < MaxCalls
    /\ Ptr(w) # nil
    /\ heap' = KeywordRegistry_SetKeywordOrder(heap, Ptr(w), prop, order)
    /\ hist' = HistSetOrder(hist, Ptr(w), prop)
    /\ lastCall' = [op |-> "SetKeywordOrder", on |-> w, prop |-> prop,
                    maker |-> "-", order |-> order]
    /\ ncalls' = ncalls + 1
    /\ UNCHANGED errvars
    /\ UNCHANGED <<r, c, kr, krLock, pc, arg, snap, recv, tmp, seen, ret>>

\* c = r.Copy()
CallCopy ==
    /\ ncalls < MaxCalls
    /\ LET res == Copy(Live(heap, {r}), r)
       IN  /\ heap' = res.heap
           /\ c' = res.ptr
           /\ hist' = [p \in {r, res.ptr} |-> hist[r]]
    /\ lastCall' = [op |-> "Copy", on |-> "r", prop |-> "-", maker |-> "-",
                    order |-> 0]
    /\ ncalls' = ncalls + 1
    /\ UNCHANGED errvars
    /\ UNCHANGED <<r, kr, krLock, pc, arg, snap, recv, tmp, seen, ret>>

CallGetKeyword(w, prop) ==
    /\ ncalls < MaxCalls
    /\ Ptr(w) # nil
    /\ ret' = GetKeyword(heap, Ptr(w), prop)
    /\ lastCall' = [op |-> "GetKeyword", on |-> w, prop |-> prop,
                    maker |-> "-", order |-> 0]
    /\ ncalls' = ncalls + 1
    /\ UNCHANGED errvars
    /\ UNCHANGED <<heap, r, c, kr, krLock, pc, arg, snap, recv, tmp, seen, hist>>

NoArg == [op |-> "none", prop |-> "-", maker |-> "-", order |-> 0]

Init ==
    /\ LET res == NewKeywordRegistry(EmptyHeap)
       IN  /\ heap = res.heap
           /\ r = res.ptr
           /\ hist = [p \in {res.ptr} |-> NoHist]
    /\ c = nil
    /\ kr = nil
    /\ krLock = 0
    /\ pc = [p \in Procs |-> "idle"]
    /\ arg = [p \in Procs |-> NoArg]
    /\ snap = [p \in Procs |-> nil]
    /\ recv = [p \in Procs |-> nil]
    /\ tmp = [p \in Procs |-> 0]
    /\ seen = [p \in Procs |-> {}]
    /\ lastCall = NoCall
    /\ ret = NewVoid
    /\ ncalls = 0
    /\ MaxKeywordErrStringLen = DefaultMaxKeywordErrStringLen
    /\ errCall = NoErrCall
    /\ out = NoOut

Next ==
    \/ \E w \in {"r", "c"}, prop \in Names, maker \in Makers :
          CallRegisterKeyword(w, prop, maker)
    \/ \E w \in {"r", "c"}, prop \in Names, order \in Orders :
          CallSetKeywordOrder(w, prop, order)
    \/ CallCopy
    \/ \E w \in {"r", "c"}, prop \in Names : CallGetKeyword(w, prop)

Spec == Init /\ [][Next]_vars

\* ------------------------------------------------------ observations
\* everything a caller can learn about prop from registry p
Lookup(h, p, prop) ==
    [registered  |-> IsRegisteredKeyword(h, p, prop),
     keyword     |-> GetKeyword(h, p, prop),
     order       |-> GetKeywordOrder(h, p, prop),
     insertOrder |-> GetKeywordInsertOrder(h, p, prop)]

Lookups(h, p) ==
    [names |-> [n \in Names |-> Lookup(h, p, n)], loaded |-> IsRegistryLoaded(h, p)]

LookupsR == Lookups(heap, r)

LookupsC == IF c = nil THEN NoCall ELSE Lookups(heap, c)

\* the step is a call of method op
Step(op) == lastCall'.op = op /\ ncalls' = ncalls + 1

TypeOK ==
    /\ r \in DOMAIN heap.regs
    /\ c \in {nil} \cup DOMAIN heap.regs
    /\ ncalls \in 0..MaxCalls

\* ------------------------------------ callers of the shared registry
\* the names the concurrent callers pass
SharedNames == {"type", "properties"}

GlobalCalls ==
    [op : {"RegisterKeyword"}, prop : SharedNames, maker : {"NewType"}, order : {0}]
      \cup [op : {"SetKeywordOrder"}, prop : {"type"}, maker : {"-"}, order : {2}]
      \cup [op : {"copyGlobalKeywordRegistry"}, prop : {"-"}, maker : {"-"},
            order : {0}]

seqvars == <<r, c, lastCall, ret, ncalls>>

\* A package-level function that goes to the shared registry without taking
\* krLock.
EnterWithoutLock(p, a) ==
    /\ pc[p] = "idle"
    /\ arg' = [arg EXCEPT ![p] = a]
    /\ seen' = [seen EXCEPT ![p] = {q \in Procs : pc[q] = "done"}]
    /\ pc' = [pc EXCEPT ![p] = "init"]
    /\ UNCHANGED errvars
    /\ UNCHANGED <<heap, kr, krLock, snap, recv, tmp, hist, seqvars>>

\* caller p enters a package-level function with arguments a
Enter(p, a) ==
    /\ pc[p] = "idle"
    /\ arg' = [arg EXCEPT ![p] = a]
    /\ seen' = [seen EXCEPT ![p] = {q \in Procs : pc[q] = "done"}]
    /\ pc' = [pc EXCEPT ![p] = "lock"]
    /\ UNCHANGED errvars
    /\ UNCHANGED <<heap, kr, krLock, snap, recv, tmp, hist, seqvars>>

\* krLock.Lock() without waiting for the holder to release
LockNoWait(p) ==
    /\ pc[p] = "lock"
    /\ krLock' = p
    /\ pc' = [pc EXCEPT ![p] = "init"]
    /\ UNCHANGED errvars
    /\ UNCHANGED <<heap, kr, arg, snap, recv, tmp, seen, hist, seqvars>>

\* krLock.Lock()
Lock(p) ==
    /\ pc[p] = "lock"
    /\ krLock = 0
    /\ krLock' = p
    /\ pc' = [pc EXCEPT ![p] = "init"]
    /\ UNCHANGED errvars
    /\ UNCHANGED <<heap, kr, arg, snap, recv, tmp, seen, hist, seqvars>>

\* where the function that called getGlobalKeywordRegistry goes on
Body(a) ==
    CASE a.op = "RegisterKeyword" -> "storeMaker"
      [] a.op = "SetKeywordOrder" -> "setOrder"
      [] OTHER -> "copy"

\* A getGlobalKeywordRegistry that unlocks krLock before it returns.
LazyInitReleasing(p) ==
    /\ pc[p] = "init"
    /\ IF kr = nil
       THEN LET res == NewKeywordRegistry(heap)
            IN  /\ heap' = res.heap
                /\ kr' = res.ptr
                /\ hist' = Put(hist, res.ptr, NoHist)
       ELSE UNCHANGED <<heap, kr, hist>>
    /\ recv' = [recv EXCEPT ![p] = kr']
    /\ krLock' = 0
    /\ pc' = [pc EXCEPT ![p] = Body(arg[p])]
    /\ UNCHANGED errvars
    /\ UNCHANGED <<arg, snap, tmp, seen, seqvars>>

\* A getGlobalKeywordRegistry that creates a registry on every access.
LazyInitAlways(p) ==
    /\ pc[p] = "init"
    /\ LET res == NewKeywordRegistry(heap)
       IN  /\ heap' = res.heap
           /\ kr' = res.ptr
           /\ hist' = Put(hist, res.ptr, NoHist)
    /\ recv' = [recv EXCEPT ![p] = kr']
    /\ pc' = [pc EXCEPT ![p] = Body(arg[p])]
    /\ UNCHANGED errvars
    /\ UNCHANGED <<krLock, arg, snap, tmp, seen, seqvars>>

\* if kr == nil { kr = &KeywordRegistry{...} }; return kr, release
LazyInit(p) ==
    /\ pc[p] = "init"
    /\ IF kr = nil
       THEN LET res == NewKeywordRegistry(heap)
            IN  /\ heap' = res.heap
                /\ kr' = res.ptr
                /\ hist' = Put(hist, res.ptr, NoHist)
       ELSE UNCHANGED <<heap, kr, hist>>
    /\ recv' = [recv EXCEPT ![p] = kr']
    /\ pc' = [pc EXCEPT ![p] = Body(arg[p])]
    /\ UNCHANGED errvars
    /\ UNCHANGED <<krLock, arg, snap, tmp, seen, seqvars>>

\* r.keywordRegistry[prop] = maker
RegStoreMaker(p) ==
    /\ pc[p] = "storeMaker"
    /\ heap' = StoreMaker(heap, recv[p], arg[p].prop, arg[p].maker)
    /\ pc' = [pc EXCEPT ![p] = "readLen"]
    /\ UNCHANGED errvars
    /\ UNCHANGED <<kr, krLock, arg, snap, recv, tmp, seen, hist, seqvars>>

\* len(r.keywordInsertOrder) is evaluated
RegReadLen(p) ==
    /\ pc[p] = "readLen"
    /\ tmp' = [tmp EXCEPT ![p] = InsertOrderLen(heap, recv[p])]
    /\ pc' = [pc EXCEPT ![p] = "storeInsertOrder"]
    /\ UNCHANGED errvars
    /\ UNCHANGED <<heap, kr, krLock, arg, snap, recv, seen, hist, seqvars>>

\* r.keywordInsertOrder[prop] is assigned
RegStoreInsertOrder(p) ==
    /\ pc[p] = "storeInsertOrder"
    /\ heap' = AssignInsertOrder(heap, recv[p], arg[p].prop, tmp[p])
    /\ hist' = HistRegister(hist, recv[p], arg[p].prop, arg[p].maker, tmp[p])
    /\ tmp' = [tmp EXCEPT ![p] = 0]
    /\ pc' = [pc EXCEPT ![p] = "unlock"]
    /\ UNCHANGED errvars
    /\ UNCHANGED <<kr, krLock, arg, snap, recv, seen, seqvars>>

\* r.SetKeywordOrder(prop, order)
SetOrder(p) ==
    /\ pc[p] = "setOrder"
    /\ heap' = KeywordRegistry_SetKeywordOrder(heap, recv[p], arg[p].prop,
                                               arg[p].order)
    /\ hist' = HistSetOrder(hist, recv[p], arg[p].prop)
    /\ pc' = [pc EXCEPT ![p] = "unlock"]
    /\ UNCHANGED errvars
    /\ UNCHANGED <<kr, krLock, arg, snap, recv, tmp, seen, seqvars>>

\* return kr.Copy()
CopyGlobal(p) ==
    /\ pc[p] = "copy"
    /\ LET res == Copy(heap, recv[p])
       IN  /\ heap' = res.heap
           /\ snap' = [snap EXCEPT ![p] = res.ptr]
           /\ hist' = Put(hist, res.ptr, hist[recv[p]])
    /\ pc' = [pc EXCEPT ![p] = "unlock"]
    /\ UNCHANGED errvars
    /\ UNCHANGED <<kr, krLock, arg, recv, tmp, seen, seqvars>>

\* A package-level function that returns without running release().
UnlockKeepsLock(p) ==
    /\ pc[p] = "unlock"
    /\ pc' = [pc EXCEPT ![p] = "done"]
    /\ UNCHANGED errvars
    /\ UNCHANGED <<heap, kr, krLock, arg, snap, recv, tmp, seen, hist, seqvars>>

\* the deferred release(): krLock.Unlock(), and the function returns
Unlock(p) ==
    /\ pc[p] = "unlock"
    /\ krLock' = 0
    /\ pc' = [pc EXCEPT ![p] = "done"]
    /\ UNCHANGED errvars
    /\ UNCHANGED <<heap, kr, arg, snap, recv, tmp, seen, hist, seqvars>>

\* no registry exists before the first call of a package-level function
InitGlobal ==
    /\ heap = EmptyHeap
    /\ r = nil
    /\ c = nil
    /\ kr = nil
    /\ krLock = 0
    /\ hist = EmptyMap
    /\ pc = [p \in Procs |-> "idle"]
    /\ arg = [p \in Procs |-> NoArg]
    /\ snap = [p \in Procs |-> nil]
    /\ recv = [p \in Procs |-> nil]
    /\ tmp = [p \in Procs |-> 0]
    /\ seen = [p \in Procs |-> {}]
    /\ lastCall = NoCall
    /\ ret = NewVoid
    /\ ncalls = 0
    /\ MaxKeywordErrStringLen = DefaultMaxKeywordErrStringLen
    /\ errCall = NoErrCall
    /\ out = NoOut

NextGlobal ==
    \E p \in Procs :
        \/ \E a \in GlobalCalls : Enter(p, a)
        \/ Lock(p)
        \/ LazyInit(p)
        \/ RegStoreMaker(p)
        \/ RegReadLen(p)
        \/ RegStoreInsertOrder(p)
        \/ SetOrder(p)
        \/ CopyGlobal(p)
        \/ Unlock(p)

SpecGlobal == InitGlobal /\ [][NextGlobal]_vars

\* ------------------------------------------------ callers under fairness
\* the callers that run under a fair scheduler
Callers == 1..NumCallers

\* what caller p does between krLock.Lock() returning and its return
Proceed(p) ==
    \/ LazyInit(p)
    \/ RegStoreMaker(p)
    \/ RegReadLen(p)
    \/ RegStoreInsertOrder(p)
    \/ SetOrder(p)
    \/ CopyGlobal(p)
    \/ Unlock(p)

NextFair ==
    \E p \in Callers :
        \/ \E a \in GlobalCalls : Enter(p, a)
        \/ Lock(p)
        \/ Proceed(p)

\* where caller p stands after its next step under the lock
After(p) ==
    CASE pc[p] = "init" -> Body(arg[p])
      [] pc[p] = "storeMaker" -> "readLen"
      [] pc[p] = "readLen" -> "storeInsertOrder"
      [] pc[p] \in {"storeInsertOrder", "setOrder", "copy"} -> "unlock"
      [] OTHER -> "done"

\* a step of Proceed(p), as far as pc shows it: under NextFair the steps that
\* move pc[p] on from a place under the lock are the steps of Proceed(p), and
\* one is possible exactly when the other is
Advance(p) ==
    /\ pc[p] \in {"init", "storeMaker", "readLen", "storeInsertOrder",
                  "setOrder", "copy", "unlock"}
    /\ pc' = [pc EXCEPT ![p] = After(p)]

\* The Go scheduler runs every runnable goroutine again (weak fairness of
\* the steps under the lock), and a goroutine blocked in krLock.Lock() is
\* woken once the mutex stays free (weak fairness of Lock). Nothing obliges a
\* caller to call.
SpecFair ==
    /\ InitGlobal
    /\ [][NextFair]_vars
    /\ \A p \in Callers : WF_pc(Advance(p)) /\ WF_vars(Lock(p))

\* the registries a caller of the methods holds
Held == {w \in {"r", "c"} : Ptr(w) # nil}

\* ------------------------------------------------ many registrations
\* RegisterKeyword of one more name, never seen before, on r
BulkKeyword(i) == ToString(i)

BulkRegister(i, maker) ==
    /\ i = MapLen(heap, heap.regs[r].keywordRegistry) + 1
    /\ heap' = KeywordRegistry_RegisterKeyword(heap, r, BulkKeyword(i), maker)
    /\ hist' = [hist EXCEPT ![r].touched = @ \cup {BulkKeyword(i)}]
    /\ lastCall' = [op |-> "RegisterKeyword", on |-> "r", prop |-> BulkKeyword(i),
                    maker |-> maker, order |-> 0]
    /\ ncalls' = ncalls + 1
    /\ UNCHANGED errvars
    /\ UNCHANGED <<r, c, kr, krLock, pc, arg, snap, recv, tmp, seen, ret>>

BulkNext == \E i \in 1..BulkNames : BulkRegister(i, "NewType")

SpecBulk == Init /\ [][BulkNext]_vars

\* ------------------------------------------- callers of the error model
regvars == <<heap, r, c, kr, krLock, pc, arg, snap, recv, tmp, seen, hist, lastCall,
             ret, ncalls>>

\* MaxKeywordErrStringLen = max
SetMaxKeywordErrStringLen(max) ==
    /\ MaxKeywordErrStringLen' = max
    /\ UNCHANGED <<errCall, out, regvars>>

CallInvalidValueString(data) ==
    /\ out' = InvalidValueString(data, MaxKeywordErrStringLen)
    /\ errCall' = [fn |-> "InvalidValueString", data |-> data, v |-> NoKeyError,
                   max |-> MaxKeywordErrStringLen]
    /\ UNCHANGED <<MaxKeywordErrStringLen, regvars>>

CallError(v) ==
    /\ out' = Error(v, MaxKeywordErrStringLen)
    /\ errCall' = [fn |-> "Error", data |-> v.InvalidValue, v |-> v,
                   max |-> MaxKeywordErrStringLen]
    /\ UNCHANGED <<MaxKeywordErrStringLen, regvars>>

NextErr ==
    \/ \E max \in MaxLens : SetMaxKeywordErrStringLen(max)
    \/ \E data \in Values : CallInvalidValueString(data)
    \/ \E v \in KeyErrors : CallError(v)

SpecErr == Init /\ [][NextErr]_vars

\* ------------------------------------------------------------- claims

\* C1: once a name is registered, GetKeywordInsertOrder of that name stays
\* the value assigned at its first registration, whatever is registered or
\* ordered afterwards, and GetKeyword builds with the factory passed last.
ReRegisterKeepsInsertOrder ==
    \A w \in Held : \A n \in DOMAIN hist[Ptr(w)].first :
        /\ GetKeywordInsertOrder(heap, Ptr(w), n) = hist[Ptr(w)].first[n]
        /\ GetKeyword(heap, Ptr(w), n) = KeyMaker(hist[Ptr(w)].maker[n])

\* C2: two distinct registered names never have the same insert order, and
\* the one registered first has the smaller one.
InsertOrderUniqueAndMonotone ==
    \A w \in Held : \A n1, n2 \in Range(hist[Ptr(w)].seq) :
        n1 # n2 =>
            /\ GetKeywordInsertOrder(heap, Ptr(w), n1)
                 # GetKeywordInsertOrder(heap, Ptr(w), n2)
            /\ FirstPos(Ptr(w), n1) < FirstPos(Ptr(w), n2)
                 => GetKeywordInsertOrder(heap, Ptr(w), n1)
                      < GetKeywordInsertOrder(heap, Ptr(w), n2)

\* C7: the insert order of every registered name is below the value
\* GetKeywordInsertOrder returns for a name that was never registered.
AbsentInsertOrderIsMaximum ==
    \A n \in DOMAIN heap.maps[heap.regs[r].keywordRegistry] :
        \A m \in Names \ hist[r].touched :
            GetKeywordInsertOrder(heap, r, n) < GetKeywordInsertOrder(heap, r, m)

\* C9: a RegisterKeyword call that repeats the call made just before it
\* (same registry, same name, same factory) changes no lookup.
RegisterTwiceIsRegisterOnce ==
    [][(Step("RegisterKeyword") /\ lastCall' = lastCall)
          => (LookupsR' = LookupsR /\ LookupsC' = LookupsC)]_vars

\* the four lookups that take no factory into account
Orders4(h, p) ==
    [registered  |-> [n \in Names |-> IsRegisteredKeyword(h, p, n)],
     order       |-> [n \in Names |-> GetKeywordOrder(h, p, n)],
     insertOrder |-> [n \in Names |-> GetKeywordInsertOrder(h, p, n)],
     loaded      |-> IsRegistryLoaded(h, p)]

Orders4R == Orders4(heap, r)

Orders4C == IF c = nil THEN NoCall ELSE Orders4(heap, c)

Mutation == {"RegisterKeyword", "SetKeywordOrder"}

\* the callers that called the package-level RegisterKeyword
Registrars == {q \in Procs : arg[q].op = "RegisterKeyword"}

\* caller p has its snapshot, asked for after every registrar had returned,
\* and the registrars passed pairwise distinct names
SnapshotAfterRegistrars(p) ==
    /\ pc[p] = "done"
    /\ arg[p].op = "copyGlobalKeywordRegistry"
    /\ Registrars \subseteq seen[p]
    /\ \A q1, q2 \in Registrars : q1 # q2 => arg[q1].prop # arg[q2].prop

\* C3: a snapshot taken after N concurrent registrations of distinct names
\* holds exactly those N names, with the insert orders 0..N-1.
ConcurrentRegistrationsAllCounted ==
    \A p \in Procs : SnapshotAfterRegistrars(p) =>
        LET sr == heap.regs[snap[p]]
            names == {arg[q].prop : q \in Registrars}
        IN  /\ DOMAIN heap.maps[sr.keywordRegistry] = names
            /\ DOMAIN heap.maps[sr.keywordInsertOrder] = names
            /\ Cardinality(names) = Cardinality(Registrars)
            /\ {GetKeywordInsertOrder(heap, snap[p], n) : n \in names}
                 = 0..(Cardinality(Registrars) - 1)

ConcurrentRegistrationsWitness ==
    \E p \in Procs : SnapshotAfterRegistrars(p) /\ Cardinality(Registrars) >= 2

\* C4: a RegisterKeyword or SetKeywordOrder on the copy changes no lookup on
\* the source, and one on the source changes no lookup on the copy.
CopyIsolation ==
    [][/\ (\E op \in Mutation : Step(op)) /\ lastCall'.on = "c"
            => Orders4R' = Orders4R
       /\ (\E op \in Mutation : Step(op)) /\ lastCall'.on = "r" /\ c # nil
            => Orders4C' = Orders4C]_vars

CopyIsolationWitness ==
    /\ c # nil
    /\ lastCall.op = "SetKeywordOrder"
    /\ lastCall.on = "c"
    /\ IsRegistryLoaded(heap, r)
    /\ Orders4R # Orders4C

\* C5: right after c = r.Copy(), every lookup on c answers as on r, and the
\* Copy changed neither r nor any lookup on r.
CopyFidelity ==
    [][Step("Copy") => /\ LookupsC' = LookupsR'
                       /\ LookupsR' = LookupsR
                       /\ r' = r]_vars

CopyFidelityWitness ==
    /\ lastCall.op = "Copy"
    /\ \E n \in Names : /\ ~IsRegisteredKeyword(heap, c, n)
                        /\ GetKeywordOrder(heap, c, n) # DefaultOrder
    /\ \E n \in Names : IsRegisteredKeyword(heap, c, n)

\* C6: a name never passed to SetKeywordOrder or RegisterKeyword on a
\* registry (or on the one it was copied from) has order 1 and insert
\* order 1000 there.
DefaultsForUntouchedNames ==
    \A w \in Held : \A n \in Names \ hist[Ptr(w)].touched :
        /\ GetKeywordOrder(heap, Ptr(w), n) = 1
        /\ GetKeywordInsertOrder(heap, Ptr(w), n) = 1000

DefaultsWitness ==
    /\ c # nil
    /\ hist[c].touched # hist[r].touched
    /\ hist[c].touched # {}
    /\ hist[c].touched # Names
    /\ hist[r].touched # {}

\* C8: GetKeyword returns the void keyword exactly for unregistered names,
\* otherwise what the factory passed last for the name builds, and it
\* changes nothing in the registries.
GetKeywordDispatch ==
    [][Step("GetKeyword") =>
         LET w == lastCall'.on
             n == lastCall'.prop
         IN  /\ (ret' = NewVoid) <=> ~IsRegisteredKeyword(heap, Ptr(w), n)
             /\ IsRegisteredKeyword(heap, Ptr(w), n)
                   => ret' = KeyMaker(hist[Ptr(w)].maker[n])
             /\ heap' = heap /\ r' = r /\ c' = c
             /\ LookupsR' = LookupsR /\ LookupsC' = LookupsC]_vars

GetKeywordDispatchWitness ==
    /\ lastCall.op = "GetKeyword"
    /\ lastCall.prop \in hist[Ptr(lastCall.on)].again
    /\ ret = KeyMaker("NewProperties")

\* C10: SetKeywordOrder makes GetKeywordOrder of the name the given order,
\* registered or not, and changes no other lookup; RegisterKeyword changes
\* no GetKeywordOrder.
OrdersIndependent ==
    [][/\ Step("SetKeywordOrder") =>
            LET p == Ptr(lastCall'.on)
            IN  /\ GetKeywordOrder(heap', p, lastCall'.prop) = lastCall'.order
                /\ \A n \in Names :
                     /\ IsRegisteredKeyword(heap', p, n)
                          = IsRegisteredKeyword(heap, p, n)
                     /\ GetKeywordInsertOrder(heap', p, n)
                          = GetKeywordInsertOrder(heap, p, n)
                     /\ n # lastCall'.prop
                          => GetKeywordOrder(heap', p, n) = GetKeywordOrder(heap, p, n)
                /\ IsRegistryLoaded(heap', p) = IsRegistryLoaded(heap, p)
       /\ Step("RegisterKeyword") =>
            \A n \in Names :
                GetKeywordOrder(heap', Ptr(lastCall'.on), n)
                  = GetKeywordOrder(heap, Ptr(lastCall'.on), n)]_vars

OrdersIndependentWitness ==
    /\ lastCall.op = "SetKeywordOrder"
    /\ ~IsRegisteredKeyword(heap, Ptr(lastCall.on), lastCall.prop)
    /\ GetKeywordOrder(heap, Ptr(lastCall.on), lastCall.prop) = 2
    /\ IsRegistryLoaded(heap, Ptr(lastCall.on))
    /\ \E n \in Names \ {lastCall.prop} :
         GetKeywordOrder(heap, Ptr(lastCall.on), n) = 0

\* C11: a registry is loaded exactly when some name is registered in it; one
\* that only saw SetKeywordOrder, or was just created, is not loaded.
LoadedIffSomeRegistered ==
    \A w \in Held :
        IsRegistryLoaded(heap, Ptr(w))
          <=> \E n \in Names : IsRegisteredKeyword(heap, Ptr(w), n)

LoadedWitness ==
    /\ hist[r].touched # {}
    /\ hist[r].seq = <<>>
    /\ ~IsRegistryLoaded(heap, r)
    /\ c # nil
    /\ IsRegistryLoaded(heap, c)

\* the names the not-supported set is said to hold
FixedNotSupported ==
    {"$vocabulary", "contentEncoding", "contentMediaType", "contentSchema",
     "deprecated", "definitions", "dependencies"}

\* C12: in every state and for every registry, IsNotSupportedKeyword is
\* membership in the fixed set (true for contentMediaType, false for
\* properties), and a name just registered is registered, supported or not.
NotSupportedIsFixed ==
    /\ \A w \in Held : \A n \in Names \cup FixedNotSupported :
          IsNotSupportedKeyword(heap, Ptr(w), n) <=> n \in FixedNotSupported
    /\ \A w \in Held :
          /\ IsNotSupportedKeyword(heap, Ptr(w), "contentMediaType")
          /\ ~IsNotSupportedKeyword(heap, Ptr(w), "properties")
    /\ lastCall.op = "RegisterKeyword"
          => IsRegisteredKeyword(heap, Ptr(lastCall.on), lastCall.prop)

NotSupportedWitness ==
    /\ lastCall.op = "RegisterKeyword"
    /\ lastCall.prop = "contentMediaType"
    /\ lastCall.on = "c"
    /\ IsRegisteredKeyword(heap, c, "contentMediaType")
    /\ IsNotSupportedKeyword(heap, c, "contentMediaType")
    /\ ~IsRegisteredKeyword(heap, r, "contentMediaType")

\* C13: Error() is "<path>: <InvalidValueString(value)> <message>" with a
\* path and a value, "<path>: <message>" with a path and no value, and the
\* message alone otherwise.
ErrorRendering ==
    errCall.fn = "Error" =>
        LET v == errCall.v
            ivs == InvalidValueString(v.InvalidValue, errCall.max)
        IN  /\ out.kind = "string"
            /\ (v.PropertyPath # <<>> /\ v.InvalidValue # NilValue)
                 => out.val = v.PropertyPath \o <<":", " ">> \o ivs.val \o <<" ">>
                                \o v.Message
            /\ (v.PropertyPath # <<>> /\ v.InvalidValue = NilValue)
                 => out.val = v.PropertyPath \o <<":", " ">> \o v.Message
            /\ v.PropertyPath = <<>> => out.val = v.Message

\* the step is a call of fn (calls leave MaxKeywordErrStringLen alone)
ErrStep(fn) ==
    errCall'.fn = fn /\ MaxKeywordErrStringLen' = MaxKeywordErrStringLen

\* C14: with serialized form s of length L and the maximum M the variable holds when
\* InvalidValueString is called: s in full if M = -1 or L <= M; the first M
\* bytes of s and "..." (M+3 bytes) if M >= 0 and L > M; never more than M+3
\* bytes for M >= 0.
TruncationAtMax ==
    [][(ErrStep("InvalidValueString") /\ ~Marshal(errCall'.data).err) =>
         LET s == Marshal(errCall'.data).bt
             L == Len(s)
             M == MaxKeywordErrStringLen
         IN  /\ (M = -1 \/ L <= M) => out' = Returned(s)
             /\ (M >= 0 /\ L > M)
                  => /\ out' = Returned(SubSeq(s, 1, M) \o <<".", ".", ".">>)
                     /\ Len(out'.val) = M + 3
             /\ M >= 0 => (out'.kind = "string" /\ Len(out'.val) <= M + 3)]_vars

TruncationWitness ==
    /\ errCall.fn = "InvalidValueString"
    /\ errCall.max = 2
    /\ MaxKeywordErrStringLen = 2
    /\ errCall.data = [kind |-> "string", str |-> <<"a">>]
    /\ out = Returned(<<Quote, "a", ".", ".", ".">>)

InvalidValueStringNeverFails ==
    errCall.fn = "InvalidValueString" =>
        /\ out.kind = "string"
        /\ Marshal(errCall.data).err => out.val = <<>>

\* every name with a constructor in registry p has an insert-order entry, so
\* GetKeywordInsertOrder returns an assigned value (line 107), not the
\* default of line 110
EveryKeywordHasInsertOrder(h, p) ==
    \A n \in Names :
        IsRegisteredKeyword(h, p, n) => MapHas(h, h.regs[p].keywordInsertOrder, n)

\* where a caller that holds krLock is about to read or write the shared
\* registry for its own operation
Observing == {"storeMaker", "setOrder", "copy"}

\* C16: every snapshot copyGlobalKeywordRegistry returned, and the shared
\* registry whenever krLock is free or a caller starts its access under the
\* lock, has an insert-order entry for every registered name, also while
\* other callers register concurrently.
NoHalfAppliedRegistration ==
    /\ \A p \in Procs : snap[p] # nil => EveryKeywordHasInsertOrder(heap, snap[p])
    /\ (kr # nil /\ krLock = 0) => EveryKeywordHasInsertOrder(heap, kr)
    /\ \A p \in Procs :
         pc[p] \in Observing => EveryKeywordHasInsertOrder(heap, recv[p])

\* a snapshot with a registered name, held while another caller is half way
\* through RegisterKeyword
NoHalfAppliedWitness ==
    \E p, q \in Procs :
        /\ pc[p] = "done"
        /\ snap[p] # nil
        /\ \E n \in SharedNames : IsRegisteredKeyword(heap, snap[p], n)
        /\ pc[q] \in {"readLen", "storeInsertOrder"}
        /\ ~EveryKeywordHasInsertOrder(heap, kr)

\* between krLock.Lock() returning and krLock.Unlock()
Critical ==
    {"init", "storeMaker", "readLen", "storeInsertOrder", "setOrder", "copy",
     "unlock"}

\* C17: at most one caller at a time is between acquiring and releasing
\* krLock, and a caller that creates, reads or writes the shared registry
\* holds the lock.
MutualExclusion ==
    /\ \A p, q \in Procs : (pc[p] \in Critical /\ pc[q] \in Critical) => p = q
    /\ \A p \in Procs : pc[p] \in Critical <=> krLock = p

\* one caller writes the shared tables while two others wait for the lock
MutualExclusionWitness ==
    \E p \in Procs :
        /\ pc[p] = "readLen"
        /\ krLock = p
        /\ \A q \in Procs \ {p} : pc[q] = "lock"

\* C18: every caller obtained the one shared registry, which is still the
\* one in kr, and what a finished RegisterKeyword or SetKeywordOrder stored is
\* still there.
LazySingleton ==
    /\ \A p \in Procs : recv[p] # nil => (kr # nil /\ recv[p] = kr)
    /\ \A p \in Procs :
         (pc[p] = "done" /\ arg[p].op = "RegisterKeyword")
            => /\ IsRegisteredKeyword(heap, kr, arg[p].prop)
               /\ GetKeyword(heap, kr, arg[p].prop).by = arg[p].maker
    /\ \A p \in Procs :
         (pc[p] = "done" /\ arg[p].op = "SetKeywordOrder")
            => GetKeywordOrder(heap, kr, arg[p].prop) = arg[p].order

\* three callers that all entered before the registry existed have finished:
\* two registrations of distinct names and one SetKeywordOrder, all in kr
LazySingletonWitness ==
    /\ \A p \in Procs : pc[p] = "done" /\ seen[p] = {} /\ recv[p] = kr
    /\ \E p, q \in Procs :
         /\ arg[p].op = "RegisterKeyword"
         /\ arg[q].op = "RegisterKeyword"
         /\ arg[p].prop # arg[q].prop
    /\ \E p \in Procs : arg[p].op = "SetKeywordOrder"

\* C19: krLock is free whenever no package-level operation is in progress,
\* an operation releases it when it returns, and under fair scheduling every
\* caller that started an operation returns from it.
LockReleasedAndProgress ==
    /\ []((\A p \in Procs : pc[p] \in {"idle", "done"}) => krLock = 0)
    /\ [][\A p \in Callers :
            (pc[p] = "unlock" /\ pc'[p] = "done") => (krLock = p /\ krLock' = 0)]_vars
    /\ \A p \in Callers : (pc[p] = "lock") ~> (pc[p] = "done")

\* both callers were in their operations at the same time, and both returned
ProgressWitness ==
    /\ \A p \in Callers : pc[p] = "done" /\ seen[p] = {}
    /\ krLock = 0

====
